---------------------------- MODULE Spec2Model ----------------------------
(***************************************************************************)
(* Model of src/gce_manager.py: the GCEManager fleet controller, its       *)
(* operation waiter (wait_for_operation) and the __main__ entry point,     *)
(* run against a cloud provider that answers insert, delete, list and      *)
(* zoneOperations.get calls.                                                *)
(*                                                                         *)
(* The program is single threaded; every remote call is one step.  The     *)
(* provider is the environment: each call may fail; an operation reports   *)
(* PENDING for some lookups (or for ever) and from then on DONE, with or    *)
(* without an error field.                                                  *)
(***************************************************************************)
EXTENDS Integers, Sequences, FiniteSets, TLC

VARIABLES
    driver,               \* "main": the __main__ block; "harness": a caller of the class
    project,              \* self.project
    number_of_instances,  \* self.number_of_instances
    instances,            \* self.instances (the roster)
    pc,                   \* position of the single thread
    call,                 \* the public method that is running
    operations,           \* local `operations` of create_all / delete_all / the waiter
    results,              \* local `results` of wait_for_operation (current round)
    round,                \* polling round of the running wait (1-based)
    i,                    \* loop position of create_all / delete_all
    exc,                  \* the exception that ended the run, if any
    ret,                  \* value returned by the last call that returned
    ops,                  \* provider: the operations of the running (or last) call
    nextOp,               \* provider: next operation name
    log,                  \* remote calls and sleeps of the running (or last) call
    prev                  \* the call that ended last, and how

vars == <<driver, project, number_of_instances, instances, pc, call, operations,
          results, round, i, exc, ret, ops, nextOp, log, prev>>

----------------------------------------------------------------------------
(* Bounds of the model *)

MaxN == 2          \* largest number_of_instances of a harness run
MaxTicks == 1      \* most lookups for which a finishing operation reports PENDING
MaxItems == 2      \* longest item list of a list response

\* A wait is followed for as many rounds as the slowest finishing operation
\* needs; a wait on an operation that never finishes is cut there.
MaxSleeps == MaxTicks

----------------------------------------------------------------------------
(* Values *)

NoExc == [type |-> "none", arg |-> <<>>]

ProviderCallError == [type |-> "ProviderCallError", arg |-> <<>>]

GCEManagerError == [type |-> "GCEManagerError", arg |-> <<>>]

UnboundLocalError == [type |-> "UnboundLocalError", arg |-> <<"result">>]

TypeError == [type |-> "TypeError", arg |-> <<"NoneType">>]

OperationError(error) == [type |-> "Exception", arg |-> error]

NoCall == [call |-> "none", outcome |-> "none"]

Ended(c, outcome) == [call |-> c, outcome |-> outcome]

\* self.instances = None
None == [set |-> FALSE, items |-> <<>>]

\* "{0}-{1}".format(self.project, i)
InstanceName(p, n) == <<p, "-", n>>

\* An instance of the project and zone that no create_all of this run made.
ForeignName == <<"web", "-", 0>>

\* The instances the provider may list: those create_all names, and the foreign one.
NameUniverse ==
    {InstanceName(project, n) : n \in 0..(number_of_instances - 1)} \cup {ForeignName}

Instance(name) == [name |-> name]

\* Sequences of pairwise different elements of S, of length at most n.
DistinctSeqs(S, n) ==
    UNION {{s \in [1..k -> S] : \A a, b \in 1..k : a # b => s[a] # s[b]} : k \in 0..n}

\* What Instances.List can answer: no `items` key at all, or a list of items.
ListResponses ==
    {[hasItems |-> FALSE, items |-> <<>>]} \cup
    {[hasItems |-> TRUE, items |-> [k \in 1..Len(s) |-> Instance(s[k])]] :
        s \in DistinctSeqs(NameUniverse, MaxItems)}

\* A new operation.  The provider decides when it is created whether it will
\* ever finish (`stuck` when not).  `pendings` counts the lookups answered
\* PENDING so far; once an operation has answered DONE it stays DONE, with the
\* same error field.
NewOps ==
    {[stuck |-> st, pendings |-> 0, done |-> FALSE, err |-> FALSE] : st \in BOOLEAN}

ErrorOf(op) == <<"error", op>>

Pending == [status |-> "PENDING"]

Done(op, err) ==
    IF err THEN [status |-> "DONE", error |-> ErrorOf(op)] ELSE [status |-> "DONE"]

\* The bodies zoneOperations().get(operation = op) can answer with now
GetResponses(op) ==
    IF ops[op].done THEN {Done(op, ops[op].err)}
    ELSE (IF ops[op].stuck \/ ops[op].pendings < MaxTicks THEN {Pending} ELSE {}) \cup
         (IF ops[op].stuck THEN {} ELSE {Done(op, e) : e \in BOOLEAN})

\* The provider's operation table after it answered a lookup of op with response
AfterGet(op, response) ==
    IF response.status = "PENDING"
    THEN [ops EXCEPT ![op].pendings = @ + 1]
    ELSE [ops EXCEPT ![op].done = TRUE, ![op].err = "error" \in DOMAIN response]

----------------------------------------------------------------------------
(* Helpers on the log *)

Count(tag) == Cardinality({k \in 1..Len(log) : log[k][1] = tag})

Positions(tag) == {k \in 1..Len(log) : log[k][1] = tag}

----------------------------------------------------------------------------
(* The state after construction, GCEManager.__init__ *)

Init ==
    /\ driver \in {"main", "harness"}
    /\ \/ /\ driver = "main"
          /\ project = "brave-set-92418"
          /\ number_of_instances = 1
       \/ /\ driver = "harness"
          /\ project = "default"
          /\ number_of_instances \in 0..MaxN
    /\ instances = None
    /\ pc = "idle"
    /\ call = "none"
    /\ operations = <<>>
    /\ results = <<>>
    /\ round = 0
    /\ i = 0
    /\ exc = NoExc
    /\ ret = None
    /\ ops = <<>>
    /\ nextOp = 1
    /\ log = <<>>
    /\ prev = NoCall

\* An entry point that calls the methods in any order, like a harness.
CanCallAnyOrder(c) == pc = "idle"

\* May the driver call method c now?  __main__ calls create_all, then
\* delete_all, and ends; a harness calls what it likes, as often as it likes.
CanCall(c) ==
    /\ pc = "idle"
    /\ \/ /\ driver = "main"
          /\ \/ c = "create_all" /\ prev = NoCall
             \/ c = "delete_all" /\ prev = Ended("create_all", "ok")
       \/ driver = "harness"

Some(items) == [set |-> TRUE, items |-> items]

\* An exception leaves call c; nothing in the program catches it.
Raise(c, e) ==
    /\ pc' = "raised"
    /\ exc' = e
    /\ prev' = Ended(c, "raised")

\* Call c returns v to the driver.
Return(c, v) ==
    /\ pc' = "idle"
    /\ ret' = v
    /\ prev' = Ended(c, "ok")
    /\ UNCHANGED ops

\* The operations of an earlier call are never looked up again: when a call
\* starts, the provider's table of them is dropped and its names start anew.
ForgetOperations ==
    /\ ops' = <<>>
    /\ nextOp' = 1

----------------------------------------------------------------------------
(* create_all *)

\* A create_all that drops the roster when it starts.
CreateAllBeginClearsRoster ==
    /\ CanCall("create_all")
    /\ call' = "create_all"
    /\ pc' = "create_loop"
    /\ operations' = <<>>
    /\ i' = 0
    /\ log' = <<>>
    /\ results' = <<>>
    /\ round' = 0
    /\ ret' = None
    /\ instances' = None
    /\ ForgetOperations
    /\ UNCHANGED <<driver, project, number_of_instances, exc, prev>>

\* create_all is entered: operations = []
CreateAllBegin ==
    /\ CanCall("create_all")
    /\ call' = "create_all"
    /\ pc' = "create_loop"
    /\ operations' = <<>>
    /\ i' = 0
    /\ log' = <<>>
    /\ results' = <<>>
    /\ round' = 0
    /\ ret' = None
    /\ ForgetOperations
    /\ UNCHANGED <<driver, project, number_of_instances, instances, exc, prev>>

\* A create_all that logs a failed insert and goes on with the next instance.
CreateInstanceSkipsFailure ==
    /\ pc = "create_loop"
    /\ i < number_of_instances
    /\ LET instance_name == InstanceName(project, i)
       IN  \/ /\ log' = Append(log, <<"insert", instance_name, "failed">>)
              /\ i' = i + 1
              /\ UNCHANGED <<operations, ops, nextOp, ret, pc, exc, prev>>
           \/ \E kind \in NewOps :
                /\ log' = Append(log, <<"insert", instance_name, "ok", nextOp>>)
                /\ ops' = (nextOp :> kind) @@ ops
                /\ operations' = Append(operations, nextOp)
                /\ nextOp' = nextOp + 1
                /\ i' = i + 1
                /\ UNCHANGED <<pc, exc, prev, ret>>
    /\ UNCHANGED <<driver, project, number_of_instances, instances, call,
                   results, round>>

\* One pass of the loop of create_all: create_instance("{project}-{i}") issues
\* the insert call; its failure leaves create_all at once.
CreateInstance ==
    /\ pc = "create_loop"
    /\ i < number_of_instances
    /\ LET instance_name == InstanceName(project, i)
       IN  \/ /\ log' = Append(log, <<"insert", instance_name, "failed">>)
              /\ Raise(call, ProviderCallError)
              /\ UNCHANGED <<operations, i, ops, nextOp, ret>>
           \/ \E kind \in NewOps :
                /\ log' = Append(log, <<"insert", instance_name, "ok", nextOp>>)
                /\ ops' = (nextOp :> kind) @@ ops
                /\ operations' = Append(operations, nextOp)
                /\ nextOp' = nextOp + 1
                /\ i' = i + 1
                /\ UNCHANGED <<pc, exc, prev, ret>>
    /\ UNCHANGED <<driver, project, number_of_instances, instances, call,
                   results, round>>

\* wait_for_operation(operations) is entered (from create_all or delete_all).
EnterWait ==
    /\ pc' = "wait_get"
    /\ round' = 1
    /\ results' = <<>>
    /\ log' = Append(log, <<"wait", operations>>)

\* The loop of create_all is over: self.wait_for_operation(operations)
CreateAllWait ==
    /\ pc = "create_loop"
    /\ i = number_of_instances
    /\ EnterWait
    /\ UNCHANGED <<driver, project, number_of_instances, instances, call,
                   operations, i, exc, ret, ops, nextOp, prev>>

----------------------------------------------------------------------------
(* wait_for_operation *)

\* A waiter that looks an operation up no more once it has answered DONE, and
\* takes the answer it has.
WaitGetSkipsDone ==
    /\ pc = "wait_get"
    /\ Len(results) < Len(operations)
    /\ LET operation == operations[Len(results) + 1]
       IN  IF ops[operation].done
           THEN /\ results' = Append(results, Done(operation, ops[operation].err))
                /\ UNCHANGED <<log, ops, pc, exc, prev>>
           ELSE \/ /\ log' = Append(log, <<"get", operation, "failed">>)
                   /\ Raise(call, ProviderCallError)
                   /\ UNCHANGED <<results, ops>>
                \/ \E response \in GetResponses(operation) :
                     /\ log' = Append(log, <<"get", operation, response.status>>)
                     /\ results' = Append(results, response)
                     /\ ops' = AfterGet(operation, response)
                     /\ UNCHANGED <<pc, exc, prev>>
    /\ UNCHANGED <<driver, project, number_of_instances, instances, call,
                   operations, round, i, ret, nextOp>>

\* A waiter that asks again when a lookup fails.
WaitGetRetries ==
    /\ pc = "wait_get"
    /\ Len(results) < Len(operations)
    /\ LET operation == operations[Len(results) + 1]
       IN  \/ /\ Count("get") < (MaxSleeps + 1) * Len(operations)
              /\ log' = Append(log, <<"get", operation, "failed">>)
              /\ UNCHANGED <<results, ops, pc, exc, prev>>
           \/ \E response \in GetResponses(operation) :
                /\ log' = Append(log, <<"get", operation, response.status>>)
                /\ results' = Append(results, response)
                /\ ops' = AfterGet(operation, response)
                /\ UNCHANGED <<pc, exc, prev>>
    /\ UNCHANGED <<driver, project, number_of_instances, instances, call,
                   operations, round, i, ret, nextOp>>

\* One element of the list comprehension: zoneOperations().get(...).execute()
WaitGet ==
    /\ pc = "wait_get"
    /\ Len(results) < Len(operations)
    /\ LET operation == operations[Len(results) + 1]
       IN  \/ /\ log' = Append(log, <<"get", operation, "failed">>)
              /\ Raise(call, ProviderCallError)
              /\ UNCHANGED <<results, ops>>
           \/ \E response \in GetResponses(operation) :
                /\ log' = Append(log, <<"get", operation, response.status>>)
                /\ results' = Append(results, response)
                /\ ops' = AfterGet(operation, response)
                /\ UNCHANGED <<pc, exc, prev>>
    /\ UNCHANGED <<driver, project, number_of_instances, instances, call,
                   operations, round, i, ret, nextOp>>

\* A waiter that takes one DONE result for the end of the wait.
AnyDone(rs) == \E k \in 1..Len(rs) : rs[k].status = "DONE"

\* A waiter that ends the wait as soon as a result carries an error.
AllDoneOrError(rs) ==
    \/ \A k \in 1..Len(rs) : rs[k].status = "DONE"
    \/ \E k \in 1..Len(rs) : "error" \in DOMAIN rs[k]

\* all(result['status'] == 'DONE' for result in results)
AllDone(rs) == \A k \in 1..Len(rs) : rs[k].status = "DONE"

HasError(result) == "error" \in DOMAIN result

\* A waiter that goes through all results and raises the last error it saw.
LastError(rs) ==
    IF \E k \in 1..Len(rs) : HasError(rs[k])
    THEN CHOOSE k \in 1..Len(rs) :
            HasError(rs[k]) /\ \A j \in (k + 1)..Len(rs) : ~HasError(rs[j])
    ELSE 0

\* Index of the result at which `for result in results: if 'error' in result`
\* raises; 0 when the loop runs to its end.
FirstError(rs) ==
    IF \E k \in 1..Len(rs) : HasError(rs[k])
    THEN CHOOSE k \in 1..Len(rs) :
            HasError(rs[k]) /\ \A j \in 1..(k - 1) : ~HasError(rs[j])
    ELSE 0

\* What the waiter does once every result of the round is DONE: raise the
\* error found by the loop, or `return result`.  `result` is bound by that loop
\* only, so with no results the return statement finds it unbound.
WaitEnd(rs) ==
    IF FirstError(rs) # 0 THEN [raises |-> TRUE, exc |-> OperationError(rs[FirstError(rs)].error)]
    ELSE IF Len(rs) = 0 THEN [raises |-> TRUE, exc |-> UnboundLocalError]
    ELSE [raises |-> FALSE, value |-> rs[Len(rs)]]

\* The round is complete and all results are DONE.  On a normal return the
\* caller goes on: create_all with its list call, delete_all returns.
WaitDone ==
    /\ pc = "wait_get"
    /\ Len(results) = Len(operations)
    /\ AllDone(results)
    /\ IF WaitEnd(results).raises
       THEN /\ Raise(call, WaitEnd(results).exc)
            /\ UNCHANGED <<log, ret, ops>>
       ELSE /\ log' = Append(log, <<"wait_return", WaitEnd(results).value>>)
            /\ IF call = "create_all"
               THEN /\ pc' = "list"
                    /\ UNCHANGED <<ret, ops, prev>>
               ELSE Return(call, None)
            /\ UNCHANGED exc
    /\ UNCHANGED <<driver, project, number_of_instances, instances, call,
                   operations, results, round, i, nextOp>>

\* A waiter that sleeps without going back to the lookups: the results of the
\* round stay as they are.
WaitSleepNoPoll ==
    /\ pc = "wait_get"
    /\ Len(results) = Len(operations)
    /\ ~AllDone(results)
    /\ Count("sleep") < MaxSleeps
    /\ log' = Append(log, <<"sleep">>)
    /\ round' = round + 1
    /\ UNCHANGED <<driver, project, number_of_instances, instances, pc, call,
                   operations, results, i, exc, ret, ops, nextOp, prev>>

\* The round is complete and some result is not DONE: time.sleep(1), and the
\* next round starts.
WaitSleep ==
    /\ pc = "wait_get"
    /\ Len(results) = Len(operations)
    /\ ~AllDone(results)
    /\ Count("sleep") < MaxSleeps
    /\ log' = Append(log, <<"sleep">>)
    /\ round' = round + 1
    /\ results' = <<>>
    /\ UNCHANGED <<driver, project, number_of_instances, instances, pc, call,
                   operations, i, exc, ret, ops, nextOp, prev>>

----------------------------------------------------------------------------
(* list_instances *)

\* list_instances is called by the driver.
ListInstancesBegin ==
    /\ CanCall("list_instances")
    /\ call' = "list_instances"
    /\ pc' = "list"
    /\ log' = <<>>
    /\ operations' = <<>>
    /\ results' = <<>>
    /\ round' = 0
    /\ i' = 0
    /\ ret' = None
    /\ ForgetOperations
    /\ UNCHANGED <<driver, project, number_of_instances, instances, exc, prev>>

\* return result['items'], a KeyError becoming GCEManagerError
ItemsOf(result) ==
    IF result.hasItems THEN [raises |-> FALSE, value |-> result.items]
    ELSE [raises |-> TRUE, exc |-> GCEManagerError]

\* A list_instances that stores the items as the roster itself, whoever called.
ListInstancesStores ==
    /\ pc = "list"
    /\ \/ /\ log' = Append(log, <<"list", "failed">>)
          /\ Raise(call, ProviderCallError)
          /\ UNCHANGED <<instances, ret, ops>>
       \/ \E result \in ListResponses :
            /\ log' = Append(log, <<"list", "ok", result>>)
            /\ IF ItemsOf(result).raises
               THEN /\ Raise(call, ItemsOf(result).exc)
                    /\ UNCHANGED <<instances, ret, ops>>
               ELSE /\ instances' = Some(ItemsOf(result).value)
                    /\ IF call = "create_all"
                       THEN Return(call, None)
                       ELSE Return(call, Some(ItemsOf(result).value))
                    /\ UNCHANGED exc
    /\ UNCHANGED <<driver, project, number_of_instances, call, operations,
                   results, round, i, nextOp>>

\* The body of list_instances: the list call and the read of its items.  Called
\* from create_all, the value returned is assigned to self.instances.
ListInstances ==
    /\ pc = "list"
    /\ \/ /\ log' = Append(log, <<"list", "failed">>)
          /\ Raise(call, ProviderCallError)
          /\ UNCHANGED <<instances, ret, ops>>
       \/ \E result \in ListResponses :
            /\ log' = Append(log, <<"list", "ok", result>>)
            /\ IF ItemsOf(result).raises
               THEN /\ Raise(call, ItemsOf(result).exc)
                    /\ UNCHANGED <<instances, ret, ops>>
               ELSE /\ IF call = "create_all"
                       THEN /\ instances' = Some(ItemsOf(result).value)
                            /\ Return(call, None)
                       ELSE /\ UNCHANGED instances
                            /\ Return(call, Some(ItemsOf(result).value))
                    /\ UNCHANGED exc
    /\ UNCHANGED <<driver, project, number_of_instances, call, operations,
                   results, round, i, nextOp>>

----------------------------------------------------------------------------
(* delete_all *)

\* A delete_all that takes a roster of None for a roster of no instances.
DeleteAllBeginNoneAsEmpty ==
    /\ CanCall("delete_all")
    /\ call' = "delete_all"
    /\ operations' = <<>>
    /\ i' = 0
    /\ log' = <<>>
    /\ results' = <<>>
    /\ round' = 0
    /\ pc' = "delete_loop"
    /\ ret' = None
    /\ ForgetOperations
    /\ UNCHANGED <<driver, project, number_of_instances, instances, exc, prev>>

\* delete_all is entered: operations = [], and `for instance in self.instances`
\* starts, which raises TypeError when self.instances is None.
DeleteAllBegin ==
    /\ CanCall("delete_all")
    /\ call' = "delete_all"
    /\ operations' = <<>>
    /\ i' = 0
    /\ log' = <<>>
    /\ results' = <<>>
    /\ round' = 0
    /\ IF instances.set
       THEN /\ pc' = "delete_loop"
            /\ UNCHANGED <<exc, prev>>
       ELSE Raise("delete_all", TypeError)
    /\ ret' = None
    /\ ForgetOperations
    /\ UNCHANGED <<driver, project, number_of_instances, instances>>

\* A delete_all that goes through the roster from its end.
DeleteInstanceBackwards ==
    /\ pc = "delete_loop"
    /\ i < Len(instances.items)
    /\ LET instance == instances.items[Len(instances.items) - i]
       IN  \/ /\ log' = Append(log, <<"delete", instance.name, "failed">>)
              /\ Raise(call, ProviderCallError)
              /\ UNCHANGED <<operations, i, ops, nextOp>>
           \/ \E kind \in NewOps :
                /\ log' = Append(log, <<"delete", instance.name, "ok", nextOp>>)
                /\ ops' = (nextOp :> kind) @@ ops
                /\ operations' = Append(operations, nextOp)
                /\ nextOp' = nextOp + 1
                /\ i' = i + 1
                /\ UNCHANGED <<pc, exc, prev>>
    /\ UNCHANGED <<driver, project, number_of_instances, instances, call,
                   results, round, ret>>

\* A delete_all that deletes the names create_all gives, one per roster entry.
DeleteInstanceByCreatedName ==
    /\ pc = "delete_loop"
    /\ i < Len(instances.items)
    /\ LET instance == Instance(InstanceName(project, i))
       IN  \/ /\ log' = Append(log, <<"delete", instance.name, "failed">>)
              /\ Raise(call, ProviderCallError)
              /\ UNCHANGED <<operations, i, ops, nextOp>>
           \/ \E kind \in NewOps :
                /\ log' = Append(log, <<"delete", instance.name, "ok", nextOp>>)
                /\ ops' = (nextOp :> kind) @@ ops
                /\ operations' = Append(operations, nextOp)
                /\ nextOp' = nextOp + 1
                /\ i' = i + 1
                /\ UNCHANGED <<pc, exc, prev>>
    /\ UNCHANGED <<driver, project, number_of_instances, instances, call,
                   results, round, ret>>

\* One pass of the loop of delete_all: delete_instance(instance['name'])
DeleteInstance ==
    /\ pc = "delete_loop"
    /\ i < Len(instances.items)
    /\ LET instance == instances.items[i + 1]
       IN  \/ /\ log' = Append(log, <<"delete", instance.name, "failed">>)
              /\ Raise(call, ProviderCallError)
              /\ UNCHANGED <<operations, i, ops, nextOp>>
           \/ \E kind \in NewOps :
                /\ log' = Append(log, <<"delete", instance.name, "ok", nextOp>>)
                /\ ops' = (nextOp :> kind) @@ ops
                /\ operations' = Append(operations, nextOp)
                /\ nextOp' = nextOp + 1
                /\ i' = i + 1
                /\ UNCHANGED <<pc, exc, prev>>
    /\ UNCHANGED <<driver, project, number_of_instances, instances, call,
                   results, round, ret>>

\* The loop of delete_all is over: self.wait_for_operation(operations)
DeleteAllWait ==
    /\ pc = "delete_loop"
    /\ i = Len(instances.items)
    /\ EnterWait
    /\ UNCHANGED <<driver, project, number_of_instances, instances, call,
                   operations, i, exc, ret, ops, nextOp, prev>>

----------------------------------------------------------------------------

Next ==
    \/ CreateAllBegin
    \/ CreateInstance
    \/ CreateAllWait
    \/ WaitGet
    \/ WaitDone
    \/ WaitSleep
    \/ ListInstancesBegin
    \/ ListInstances
    \/ DeleteAllBegin
    \/ DeleteInstance
    \/ DeleteAllWait

Spec == Init /\ [][Next]_vars

\* The thread always takes its next step: every remote call is answered.
LiveSpec == Spec /\ WF_vars(Next)

----------------------------------------------------------------------------
(* What a state shows of the running (or last) call *)

Max(S) == CHOOSE x \in S : \A y \in S : y <= x

Min(S) == CHOOSE x \in S : \A y \in S : x <= y

\* wait_for_operation was entered and is left again, by return or by raise.
WaitOver == Count("wait") = 1 /\ pc # "wait_get"

\* wait_for_operation returned normally (Success).
WaitSuccess == Count("wait_return") = 1

\* wait_for_operation raised the error of an operation (Failure).
WaitFailure == WaitOver /\ pc = "raised" /\ exc.type = "Exception"

\* Some status lookup of the call failed.
LookupFailed == \E k \in Positions("get") : log[k][3] = "failed"

\* Positions in `operations` of the operations that are DONE with an error.
Erroring ==
    {k \in 1..Len(operations) : ops[operations[k]].done /\ ops[operations[k]].err}

\* The most lookups any operation of the batch answered with PENDING.
SlowestPendings == Max({ops[operations[k]].pendings : k \in 1..Len(operations)} \cup {0})

\* The lookups of the last round: those after the last sleep (after the entry
\* of the waiter when it never slept).
LastRound ==
    {k \in Positions("get") : k > Max(Positions("sleep") \cup Positions("wait"))}

----------------------------------------------------------------------------
(* Claims *)

\* C1: for an empty operation set wait_for_operation returns normally
\* (Success), having issued no status lookup and slept not once.
C1_EmptyWaitSucceeds ==
    (WaitOver /\ operations = <<>>) =>
        /\ WaitSuccess
        /\ exc = NoExc
        /\ Count("get") = 0
        /\ Count("sleep") = 0

\* C2: a wait on a non-empty batch none of whose operations stays PENDING for
\* ever ends: it returns Success, unless a lookup failed or an operation
\* reported an error.
C2_WaitTerminates ==
    (/\ pc = "wait_get"
     /\ operations # <<>>
     /\ \A k \in 1..Len(operations) : ~ops[operations[k]].stuck)
    ~> (WaitSuccess \/ LookupFailed \/ WaitFailure)

C2_Witness ==
    /\ WaitSuccess
    /\ Len(operations) = 2
    /\ Count("sleep") >= 1
    /\ ops[operations[1]].pendings # ops[operations[2]].pendings

\* C3: when the wait is over after a round in which every operation was DONE
\* and one or more carried an error, the waiter has raised exactly the error of
\* the first erroring operation in input order, however many others erred.
C3_FirstErrorSurfaced ==
    (/\ WaitOver
     /\ ~LookupFailed
     /\ \A k \in 1..Len(operations) : ops[operations[k]].done
     /\ Erroring # {})
    => /\ pc = "raised"
       /\ exc = [type |-> "Exception", arg |-> <<"error", operations[Min(Erroring)]>>]
       /\ ~WaitSuccess

C3_Witness ==
    /\ WaitFailure
    /\ Cardinality(Erroring) = 2
    /\ Count("sleep") >= 1

\* C4: the waiter returns (Success or Failure) only from a round in which every
\* lookup answered DONE, and that round is the first such round: with k the
\* number of rounds in which some operation was PENDING, it has made k + 1
\* rounds of lookups and slept k times.
C4_ReturnsOnlyWhenAllDone ==
    (WaitSuccess \/ WaitFailure) =>
        /\ Cardinality(LastRound) = Len(operations)
        /\ \A k \in LastRound : log[k][3] = "DONE"
        /\ round = SlowestPendings + 1
        /\ Count("get") = Len(operations) * (SlowestPendings + 1)
        /\ Count("sleep") = SlowestPendings

C4_Witness ==
    /\ WaitSuccess
    /\ Len(operations) = 2
    /\ ops[operations[1]].pendings = 0
    /\ ops[operations[2]].pendings = 1
    /\ Count("sleep") = 1

\* C5: when every remote call succeeds and no operation errs, create_all with
\* number_of_instances = N issues exactly N insert calls, named {project}-0 to
\* {project}-(N-1) in this order, all before the first status lookup; enters
\* the waiter once, on the N operations in the order of their inserts; and
\* issues exactly one list call, after the waiter has returned.
C5_CreateAllSequence ==
    (/\ call = "create_all"
     /\ pc \in {"idle", "raised"}
     /\ exc.type \notin {"ProviderCallError", "Exception"})
    => /\ Count("insert") = number_of_instances
       /\ \A j \in 1..number_of_instances :
            log[j] = <<"insert", InstanceName(project, j - 1), "ok", operations[j]>>
       /\ Len(operations) = number_of_instances
       /\ Count("wait") = 1
       /\ log[number_of_instances + 1] = <<"wait", operations>>
       /\ Count("wait_return") = 1
       /\ Count("list") = 1
       /\ log[Len(log)][1] = "list"
       /\ log[Len(log) - 1][1] = "wait_return"
       /\ Count("delete") = 0

\* Position in the log of the insert call that failed (0 when none did).
FailedInsert ==
    IF \E k \in Positions("insert") : log[k][3] = "failed"
    THEN CHOOSE k \in Positions("insert") : log[k][3] = "failed"
    ELSE 0

\* C6: when the j-th insert call of create_all fails, create_all has raised
\* that error at once: the j-th insert is the last remote call, j - 1
\* operations exist, and no lookup, list or delete call was issued.
C6_InsertFailureStopsCreateAll ==
    FailedInsert # 0 =>
        /\ call = "create_all"
        /\ pc = "raised"
        /\ exc = ProviderCallError
        /\ Len(log) = FailedInsert
        /\ \A j \in 1..FailedInsert :
             /\ log[j][1] = "insert"
             /\ log[j][2] = InstanceName(project, j - 1)
        /\ \A j \in 1..(FailedInsert - 1) : log[j][3] = "ok"
        /\ Len(operations) = FailedInsert - 1
        /\ Cardinality(DOMAIN ops) = FailedInsert - 1
        /\ Count("get") = 0 /\ Count("wait") = 0
        /\ Count("list") = 0
        /\ Count("delete") = 0

C6_Witness ==
    /\ FailedInsert = 2
    /\ pc = "raised"
    /\ Len(operations) = 1

\* The answer of the list call of the running (or last) call, when it answered.
ListAnswered == Count("list") = 1 /\ log[Len(log)][1] = "list" /\ log[Len(log)][2] = "ok"

\* C7: list_instances raises GCEManagerError whenever the list response has no
\* instance, be the items key absent or the item list empty; with one or more
\* items it returns them as they are.
C7_EmptyListRaises ==
    ListAnswered =>
        LET result == log[Len(log)][3]
        IN  IF ~result.hasItems \/ Len(result.items) = 0
            THEN pc = "raised" /\ exc = GCEManagerError
            ELSE /\ pc = "idle"
                 /\ call = "list_instances" => ret = [set |-> TRUE, items |-> result.items]

\* C8: delete_all on a roster of M entries whose delete calls all succeed
\* issues exactly M delete calls, one per entry in roster order, before any
\* status lookup, and then enters the waiter once, on the M operations the
\* delete calls returned, in this order.
C8_DeleteAllSequence ==
    (call = "delete_all" /\ instances.set) =>
        LET M == Len(instances.items)
        IN  /\ pc = "delete_loop" =>
                /\ Len(log) = i
                /\ i <= M
                /\ \A j \in 1..i :
                     log[j] = <<"delete", instances.items[j].name, "ok", operations[j]>>
            /\ (Count("wait") > 0) =>
                /\ Count("delete") = M
                /\ \A j \in 1..M :
                     log[j] = <<"delete", instances.items[j].name, "ok", operations[j]>>
                /\ Len(operations) = M
                /\ Count("wait") = 1
                /\ log[M + 1] = <<"wait", operations>>
            /\ (Count("get") > 0) => Count("wait") = 1

C8_Witness ==
    /\ call = "delete_all"
    /\ Len(instances.items) = 2
    /\ instances.items[1].name = ForeignName
    /\ WaitSuccess

\* C9: after delete_all has returned the roster is empty, so a delete_all
\* called right after it issues no delete call.
C9_RosterEmptyAfterDeleteAll ==
    /\ (pc = "idle" /\ prev = Ended("delete_all", "ok")) =>
          (instances.set /\ instances.items = <<>>)
    /\ (call = "delete_all" /\ pc # "idle" /\ prev = Ended("delete_all", "ok")) =>
          Count("delete") = 0

\* C10: one run of __main__ is create_all once, then delete_all once.  A delete
\* call is issued only after create_all has returned; once create_all has
\* raised, the run is over and no delete call is issued.
C10_MainRunsOneCycle ==
    driver = "main" =>
        /\ call \in {"none", "create_all", "delete_all"}
        /\ ENABLED CreateAllBegin => (prev = NoCall /\ call = "none")
        /\ ENABLED DeleteAllBegin =>
              (prev = Ended("create_all", "ok") /\ call = "create_all")
        /\ ~ENABLED ListInstancesBegin
        /\ call = "delete_all" =>
              (instances.set /\ prev \in {Ended("create_all", "ok"),
                                          Ended("delete_all", "ok"),
                                          Ended("delete_all", "raised")})
        /\ Count("delete") > 0 => call = "delete_all"
        /\ prev = Ended("create_all", "raised") =>
              (pc = "raised" /\ Count("delete") = 0 /\ ~ENABLED Next)
        /\ prev.call = "delete_all" => ~ENABLED Next

C10_Witness ==
    /\ driver = "main"
    /\ prev = Ended("delete_all", "ok")
    /\ Count("delete") = 2

\* Some operation of the batch waited on never finishes.
SomeStuck == \E k \in 1..Len(operations) : ops[operations[k]].stuck

\* C11: while an operation of the batch answers PENDING to every lookup and no
\* lookup fails, the waiter neither returns nor raises: it is still in its
\* loop, polling on, also when another operation of the batch is DONE with an
\* error.
C11_StuckOperationBlocks ==
    (Count("wait") = 1 /\ SomeStuck /\ ~LookupFailed) =>
        /\ pc = "wait_get"
        /\ exc = NoExc
        /\ ~WaitSuccess
        /\ round = Count("sleep") + 1
        /\ Count("sleep") < MaxSleeps => ENABLED (WaitGet \/ WaitSleep)

C11_Witness ==
    /\ pc = "wait_get"
    /\ Len(operations) = 2
    /\ ops[operations[1]].done /\ ops[operations[1]].err
    /\ ops[operations[2]].stuck
    /\ Len(results) = 2
    /\ Count("sleep") = MaxSleeps

\* The log position at which the round of the lookup at position k started: the
\* last sleep, or the entry of the waiter, before k.
RoundStart(k) == Max({m \in Positions("sleep") \cup Positions("wait") : m < k})

\* C12: every round of a wait on n operations issues n lookups, one per
\* operation in input order, operations that were DONE before included; a
\* sleep comes only after the n lookups of its round, one of which answered
\* PENDING in that round; a wait of r rounds has issued r * n lookups.
C12_EveryRoundLooksUpAll ==
    Count("wait") = 1 =>
        LET n == Len(operations)
        IN  /\ \A k \in Positions("get") :
                 /\ k - RoundStart(k) \in 1..n
                 /\ log[k][2] = operations[k - RoundStart(k)]
            /\ \A s \in Positions("sleep") :
                 /\ \A j \in 1..n : log[s - j][1] = "get" /\ log[s - j][3] # "failed"
                 /\ \E j \in 1..n : log[s - j][1] = "get" /\ log[s - j][3] = "PENDING"
            /\ round = Count("sleep") + 1
            /\ pc = "wait_get" => Count("get") = (round - 1) * n + Len(results)
            /\ (WaitSuccess \/ WaitFailure) => Count("get") = round * n

C12_Witness ==
    /\ WaitSuccess
    /\ Len(operations) = 2
    /\ round = 2
    /\ log[Min(Positions("get"))][3] = "DONE"
    /\ Count("get") = 4

\* C13: a failed status lookup ends the wait and the call around it at once,
\* with that error: the failed lookup is the last remote call, it is the only
\* failed one, and neither a lookup, a sleep nor a list call follows.
C13_LookupFailurePropagates ==
    LookupFailed =>
        /\ pc = "raised"
        /\ exc = ProviderCallError
        /\ call \in {"create_all", "delete_all"}
        /\ prev = Ended(call, "raised")
        /\ log[Len(log)][1] = "get" /\ log[Len(log)][3] = "failed"
        /\ Cardinality({k \in Positions("get") : log[k][3] = "failed"}) = 1
        /\ Count("list") = 0
        /\ ~WaitSuccess
        /\ ~ENABLED Next

C13_Witness ==
    /\ LookupFailed
    /\ Len(operations) = 2
    /\ Count("sleep") = 1
    /\ log[Len(log)][2] = operations[1]
    /\ call = "create_all"

\* The item list of the list response that ends the log.
ListedItems == log[Len(log)][3].items

\* create_all has just returned: its log ends with the answered list call.
CreateAllReturned == pc = "idle" /\ prev = Ended("create_all", "ok")

\* C14: when the waiter fails inside create_all, no list and no delete call is
\* issued and the roster stays what it was before create_all; a step of
\* create_all changes the roster only once the waiter has returned, to the
\* items of the one list call then issued.
C14_WaitFailureLeavesRoster ==
    /\ []((call = "create_all" /\ WaitFailure) =>
            (pc = "raised" /\ Count("list") = 0 /\ Count("delete") = 0))
    /\ [][(call' = "create_all" /\ ~WaitSuccess') => instances' = instances]_vars
    /\ [][(call' = "create_all" /\ instances' # instances) =>
            /\ WaitSuccess
            /\ Count("list") = 0
            /\ Count("list")' = 1
            /\ ListAnswered'
            /\ instances' = [set |-> TRUE, items |-> ListedItems']]_vars

C14_Witness ==
    /\ call = "create_all"
    /\ WaitFailure
    /\ instances.set
    /\ Len(instances.items) = 2
    /\ Count("sleep") = 1

\* C15: delete_all issues its delete calls for the names in the roster, entry
\* by entry, and for no other name; called right after create_all, that roster
\* is the item list of create_all's list response, whatever create_all
\* inserted.
C15_DeleteAllTargetsRoster ==
    /\ []((call = "delete_all" /\ instances.set) =>
            /\ \A k \in Positions("delete") :
                 k <= Len(instances.items) /\ log[k][2] = instances.items[k].name
            /\ Count("wait") = 1 =>
                 {log[k][2] : k \in Positions("delete")} =
                 {instances.items[k].name : k \in 1..Len(instances.items)})
    /\ [][(CreateAllReturned /\ call' = "delete_all") =>
            /\ instances' = [set |-> TRUE, items |-> ListedItems]
            /\ pc' = "delete_loop"]_vars

C15_Witness ==
    /\ call = "delete_all"
    /\ WaitSuccess
    /\ number_of_instances = 2
    /\ instances.items = <<[name |-> ForeignName], [name |-> <<project, "-", 1>>]>>
    /\ Count("delete") = 2

\* C16: the roster is unset until a create_all has returned, and right after a
\* create_all returned it is the item list of that call's list response; the
\* roster changes only in the step by which create_all returns, after its
\* inserts, its wait and its list call; every step that raises, and every step
\* of delete_all and list_instances, leaves it as it is.
C16_RosterFrame ==
    /\ [](~instances.set => (instances = None /\ ~CreateAllReturned))
    /\ [](CreateAllReturned =>
            /\ ListAnswered
            /\ instances = [set |-> TRUE, items |-> ListedItems]
            /\ Cardinality({k \in Positions("insert") : log[k][3] = "ok"})
                 = number_of_instances
            /\ WaitSuccess)
    /\ [][instances' # instances =>
            /\ call = "create_all" /\ pc = "list"
            /\ pc' = "idle" /\ prev' = Ended("create_all", "ok")]_vars
    /\ [][(prev'.outcome = "raised" \/ call' \in {"delete_all", "list_instances"}) =>
            instances' = instances]_vars

C16_Witness ==
    /\ prev = Ended("create_all", "raised")
    /\ exc = GCEManagerError
    /\ WaitSuccess
    /\ instances.set
    /\ Len(instances.items) = 1

\* C17: delete_all called while the roster is unset raises; it has issued no
\* delete call and no status lookup, and has not entered the waiter.
C17_DeleteAllOnUnsetRosterFails ==
    (call = "delete_all" /\ ~instances.set) =>
        /\ pc = "raised"
        /\ exc = TypeError
        /\ prev = Ended("delete_all", "raised")
        /\ log = <<>>
        /\ operations = <<>>
        /\ ~ENABLED Next

C17_Witness ==
    /\ call = "delete_all"
    /\ ~instances.set
    /\ pc = "raised"
    /\ exc.type = "TypeError"
    /\ number_of_instances = 2

=============================================================================
